---- MODULE Spec2Model ----
(***************************************************************************)
(* Model of the gift price analyzer.                                       *)
(*                                                                         *)
(*   src/app/components/PriceTable.tsx  the table component: the corpus    *)
(*       GIFTS, calcPop, analyticsStatus, buildRows, VALUE_P85 and the     *)
(*       sort handlers;                                                    *)
(*   src/utils/engine.ts                calculateGiftScore, calculateValue *)
(*       and evaluateGift;                                                 *)
(*   src/unnamed/part_000               the GiftTable component: its rows  *)
(*       and its handlers;                                                 *)
(*   src/unnamed/part_005               cleanData, the cleaning of the raw *)
(*       catalogue file.                                                   *)
(*                                                                         *)
(* Number representations.                                                 *)
(*   PriceTable: price_min, price_max, item_popularity, query_popularity   *)
(*     are integers; score is an integer number of hundredths (950 is      *)
(*     9.50); value is the exact rational (score*100)/price_min, a record  *)
(*     [n, d] in lowest terms with d > 0; popRating is in thousandths.     *)
(*   engine.ts: a JavaScript number is a record [k, v]: k = "fin" with v   *)
(*     the value in thousandths (4500 is 4.5), k = "nan", or k = "inf"     *)
(*     with v the sign.  Products and quotients are truncated to           *)
(*     thousandths; Math.exp, Math.log10 and Math.log2 are tables of the   *)
(*     values rounded to thousandths, defined on the arguments listed.     *)
(*     An absent argument is the record with k = "undef".                  *)
(*   GiftTable: price is an integer, rating and valueIndex are in tenths.  *)
(*   A string is a sequence of one-character strings; a Cyrillic letter is *)
(*     the token "uXXXX" of its code point.  An optional value is <<>>     *)
(*     when absent and <<x>> when present.                                 *)
(*                                                                         *)
(* Specifications.                                                         *)
(*   Spec        the PriceTable component over a corpus of Pool items      *)
(*   SpecLoad    the first render over longer corpora (VALUE_P85)          *)
(*   SpecScore   calculateGiftScore on drawn inputs                        *)
(*   SpecStatus  analyticsStatus on drawn rows and thresholds              *)
(*   SpecValue   calculateValue on drawn inputs, next to a first render    *)
(*   SpecOptional  calculateGiftScore on inputs with absent signals, next  *)
(*               to a first render                                         *)
(*   SpecPop     calcPop on drawn counts, next to a first render           *)
(*   SpecQuery   buildRows and the rows of GiftTable on drawn corpora and  *)
(*               queries                                                   *)
(*   SpecTables  the PriceTable component and the GiftTable component,     *)
(*               each with its handlers                                    *)
(*   SpecEvaluate  evaluateGift on drawn inputs                            *)
(*   SpecClean   cleanData on drawn input files                            *)
(***************************************************************************)
EXTENDS Integers, Sequences, FiniteSets, TLC

VARIABLES
    GIFTS,          \* the corpus (PriceTable.tsx:41)
    mounted,        \* the component has rendered once
    category,       \* the prop set by the sidebar
    categoryFilter, \* useState('All')
    search,         \* useState('')
    sortKey,        \* useState('value')
    sortDir,        \* useState('desc')
    bestValue,      \* useState(false)
    sortByPop,      \* useState(false)
    VALUE_P85,      \* useMemo(..., []): computed at the first render
    call,           \* the pure function being applied ("none" when idle)
    args,           \* its arguments
    ret             \* its result (<<>> before the call returns)

vars == <<GIFTS, mounted, category, categoryFilter, search, sortKey, sortDir,
          bestValue, sortByPop, VALUE_P85, call, args, ret>>

uiVars == <<category, categoryFilter, search, sortKey, sortDir, bestValue, sortByPop>>

callVars == <<call, args, ret>>

(***************************************************************************)
(* Bounds                                                                  *)
(***************************************************************************)
\* Longest corpus of the table specification.
MaxItems == 2

\* Longest corpus of the percentile specification.
MaxCorpus == 8

\* The largest exponent k of a count 10^k given to calcPop.
MaxExp == 7

(***************************************************************************)
(* Strings                                                                 *)
(***************************************************************************)
\* Collation order of the characters the model uses.
Alphabet ==
    <<" ", ":", ".", "a", "b", "c", "d", "e", "f", "g", "h", "i", "j", "k", "l",
      "m", "n", "o", "p", "q", "r", "s", "t", "u", "v", "w", "x", "y", "z">>

Upper ==
    <<"A", "B", "C", "D", "E", "F", "G", "H", "I", "J", "K", "L", "M",
      "N", "O", "P", "Q", "R", "S", "T", "U", "V", "W", "X", "Y", "Z">>

\* The Cyrillic letters of the cleaning script's keywords, each written as
\* the token "uXXXX" of its code point, lower case and upper case.
CyrLower ==
    <<"u0430", "u0431", "u0432", "u0433", "u0434", "u0435", "u0438", "u043a",
      "u043b", "u043d", "u043e", "u043f", "u0440", "u0442", "u0443",
      "u0446", "u0449", "u044f", "u0456", "u0457">>

CyrUpper ==
    <<"u0410", "u0411", "u0412", "u0413", "u0414", "u0415", "u0418", "u041a",
      "u041b", "u041d", "u041e", "u041f", "u0420", "u0422", "u0423",
      "u0426", "u0429", "u042f", "u0406", "u0407">>

\* The upper-case letters as sets.
UpperSet == { Upper[i] : i \in DOMAIN Upper }

CyrUpperSet == { CyrUpper[i] : i \in DOMAIN CyrUpper }

\* String.prototype.toLowerCase on one character.
LowerChar(c) ==
    IF c \in UpperSet
    THEN Alphabet[3 + (CHOOSE i \in DOMAIN Upper : Upper[i] = c)]
    ELSE IF c \in CyrUpperSet
    THEN CyrLower[CHOOSE i \in DOMAIN CyrUpper : CyrUpper[i] = c]
    ELSE c

\* String.prototype.toUpperCase on one character.
UpperChar(c) ==
    IF \E i \in 4..Len(Alphabet) : Alphabet[i] = c
    THEN Upper[(CHOOSE i \in 4..Len(Alphabet) : Alphabet[i] = c) - 3]
    ELSE IF \E i \in DOMAIN CyrLower : CyrLower[i] = c
    THEN CyrUpper[CHOOSE i \in DOMAIN CyrLower : CyrLower[i] = c]
    ELSE c

toUpperCase(s) == [i \in DOMAIN s |-> UpperChar(s[i])]

toLowerCase(s) == [i \in DOMAIN s |-> LowerChar(s[i])]

\* String.prototype.trim: leading and trailing blanks removed.
RECURSIVE trimStart(_)
trimStart(s) ==
    IF s # <<>> /\ Head(s) = " " THEN trimStart(Tail(s)) ELSE s

RECURSIVE trimEnd(_)
trimEnd(s) ==
    IF s # <<>> /\ s[Len(s)] = " " THEN trimEnd(SubSeq(s, 1, Len(s) - 1)) ELSE s

trim(s) == trimEnd(trimStart(s))

\* String.prototype.includes
includes(s, needle) ==
    \E i \in 0..(Len(s) - Len(needle)) : SubSeq(s, i + 1, i + Len(needle)) = needle

\* String.prototype.startsWith
startsWith(s, p) == Len(s) >= Len(p) /\ SubSeq(s, 1, Len(p)) = p

\* String.prototype.slice(k)
slice(s, k) == SubSeq(s, k + 1, Len(s))

\* Array.prototype.includes
arrayIncludes(arr, x) == \E i \in DOMAIN arr : arr[i] = x

CharRank(c) == CHOOSE i \in DOMAIN Alphabet : Alphabet[i] = LowerChar(c)

IsUpper(c) == \E i \in DOMAIN Upper : Upper[i] = c

\* Lexicographic comparison of two sequences of integers: -1, 0 or 1.
RECURSIVE LexCompare(_, _)
LexCompare(a, b) ==
    IF a = <<>> /\ b = <<>> THEN 0
    ELSE IF a = <<>> THEN -1
    ELSE IF b = <<>> THEN 1
    ELSE IF Head(a) < Head(b) THEN -1
    ELSE IF Head(a) > Head(b) THEN 1
    ELSE LexCompare(Tail(a), Tail(b))

\* String.prototype.localeCompare: letters first (case ignored), then case, with
\* lower case before upper case.
localeCompare(a, b) ==
    LET primary == LexCompare([i \in DOMAIN a |-> CharRank(a[i])],
                              [i \in DOMAIN b |-> CharRank(b[i])])
    IN IF primary # 0 THEN primary
       ELSE LexCompare([i \in DOMAIN a |-> IF IsUpper(a[i]) THEN 1 ELSE 0],
                       [i \in DOMAIN b |-> IF IsUpper(b[i]) THEN 1 ELSE 0])

All == <<"A", "l", "l">>
TagPrefix == <<"t", "a", "g", ":">>

(***************************************************************************)
(* Exact rationals, for value = (score * 100) / price_min                  *)
(***************************************************************************)
Abs(x) == IF x < 0 THEN -x ELSE x

RECURSIVE GCD(_, _)
GCD(a, b) == IF b = 0 THEN a ELSE GCD(b, a % b)

\* n/d in lowest terms, d > 0.
Rat(n, d) ==
    LET g == GCD(Abs(n), Abs(d))
        s == IF d < 0 THEN -1 ELSE 1
    IN [n |-> (s * n) \div g, d |-> (s * d) \div g]

RatInt(x) == [n |-> x, d |-> 1]

RatLess(a, b) == a.n * b.d < b.n * a.d
RatLeq(a, b) == a.n * b.d <= b.n * a.d

\* Sign of a - b.
RatCompare(a, b) == IF RatLess(a, b) THEN -1 ELSE IF RatLess(b, a) THEN 1 ELSE 0

(***************************************************************************)
(* Math.log10, rounded to thousandths, on the arguments the model uses     *)
(***************************************************************************)
Log10Table ==
    { <<1, 0>>, <<2, 301>>, <<3, 477>>, <<4, 602>>, <<5, 699>>, <<6, 778>>,
      <<7, 845>>, <<8, 903>>, <<9, 954>>, <<10, 1000>>, <<11, 1041>>,
      <<50, 1699>>,
      <<51, 1708>>, <<100, 2000>>, <<101, 2004>>, <<150, 2176>>, <<199, 2299>>,
      <<200, 2301>>, <<201, 2303>>, <<300, 2477>>, <<399, 2601>>, <<400, 2602>>,
      <<401, 2603>>, <<500, 2699>>, <<501, 2700>>, <<1000, 3000>>,
      <<10000, 4000>>, <<100000, 5000>>, <<1000000, 6000>>, <<2000000, 6301>>,
      <<10000000, 7000>>, <<100000000, 8000>> }

\* 1000 * log10(n) for an integer n of the table.
Log10Milli(n) == (CHOOSE p \in Log10Table : p[1] = n)[2]

\* 10^k
RECURSIVE Pow10(_)
Pow10(k) == IF k = 0 THEN 1 ELSE 10 * Pow10(k - 1)

Min(a, b) == IF a < b THEN a ELSE b
Max(a, b) == IF a > b THEN a ELSE b

(***************************************************************************)
(* PriceTable.tsx: pure helpers                                            *)
(***************************************************************************)
\* An optional field: None when absent, Some(x) when present.
None == <<>>
Some(x) == <<x>>

\* opt ?? dflt
Coalesce(opt, dflt) == IF opt = None THEN dflt ELSE opt[1]

\* calcPop(n): log10(n) - 1 clamped to [0, 5], in thousandths.  The argument
\* is None for a missing count and Some(k) for the number k.
calcPop_NoOffset(n) ==
    IF n = None \/ n[1] = 0 \/ n[1] <= 0 THEN 0
    ELSE Min(5000, Max(0, Log10Milli(n[1])))

calcPop_NoClamp(n) ==
    IF n = None \/ n[1] = 0 \/ n[1] <= 0 THEN 0
    ELSE Log10Milli(n[1]) - 1000

calcPop(n) ==
    IF n = None \/ n[1] = 0 \/ n[1] <= 0 THEN 0
    ELSE Min(5000, Max(0, Log10Milli(n[1]) - 1000))

\* The labels of analyticsStatus ("Стійкий попит", "Обґрунтований вибір",
\* "Нішевий фаворит", "Висока затребуваність", "Стандартна пропозиція"),
\* transliterated.  The css class of the result is left out.
analyticsStatus_TierFourFirst(row, valueP85) ==
    IF RatLeq(valueP85, row.value)
    THEN [label |-> "Obgruntovanyi vybir", priority |-> 4]
    ELSE IF row.score > 900 /\ row.item_popularity > 400
    THEN [label |-> "Stiikyi popyt", priority |-> 5]
    ELSE IF row.score > 900 /\ row.item_popularity < 200
    THEN [label |-> "Nishevyi favoryt", priority |-> 3]
    ELSE IF row.item_popularity > 400
    THEN [label |-> "Vysoka zatrebuvanist", priority |-> 2]
    ELSE [label |-> "Standartna propozytsiia", priority |-> 1]

analyticsStatus_TierThreeFirst(row, valueP85) ==
    IF row.score > 900 /\ row.item_popularity > 400
    THEN [label |-> "Stiikyi popyt", priority |-> 5]
    ELSE IF row.score > 900 /\ row.item_popularity < 200
    THEN [label |-> "Nishevyi favoryt", priority |-> 3]
    ELSE IF RatLeq(valueP85, row.value)
    THEN [label |-> "Obgruntovanyi vybir", priority |-> 4]
    ELSE IF row.item_popularity > 400
    THEN [label |-> "Vysoka zatrebuvanist", priority |-> 2]
    ELSE [label |-> "Standartna propozytsiia", priority |-> 1]

analyticsStatus_NicheInclusive(row, valueP85) ==
    IF row.score > 900 /\ row.item_popularity > 400
    THEN [label |-> "Stiikyi popyt", priority |-> 5]
    ELSE IF RatLeq(valueP85, row.value)
    THEN [label |-> "Obgruntovanyi vybir", priority |-> 4]
    ELSE IF row.score > 900 /\ row.item_popularity <= 400
    THEN [label |-> "Nishevyi favoryt", priority |-> 3]
    ELSE IF row.item_popularity > 400
    THEN [label |-> "Vysoka zatrebuvanist", priority |-> 2]
    ELSE [label |-> "Standartna propozytsiia", priority |-> 1]

\* analyticsStatus(row, valueP85): a decision list, first match wins.
analyticsStatus(row, valueP85) ==
    IF row.score > 900 /\ row.item_popularity > 400
    THEN [label |-> "Stiikyi popyt", priority |-> 5]
    ELSE IF RatLeq(valueP85, row.value)
    THEN [label |-> "Obgruntovanyi vybir", priority |-> 4]
    ELSE IF row.score > 900 /\ row.item_popularity < 200
    THEN [label |-> "Nishevyi favoryt", priority |-> 3]
    ELSE IF row.item_popularity > 400
    THEN [label |-> "Vysoka zatrebuvanist", priority |-> 2]
    ELSE [label |-> "Standartna propozytsiia", priority |-> 1]

\* g.price_min > 0 ? (g.score * 100) / g.price_min : 0
rowValue(g) ==
    IF g.price_min > 0 THEN Rat(g.score, g.price_min) ELSE RatInt(0)

\* The callback of GIFTS.map in buildRows: one row per corpus item.
buildRow_TemporaryPriority(g, valueP85) ==
    [id |-> g.id, title |-> g.title, category |-> g.category,
     price_min |-> g.price_min, price_max |-> g.price_max, query |-> g.query,
     query_popularity |-> g.query_popularity,
     item_popularity |-> g.item_popularity, score |-> g.score,
     tags |-> Coalesce(g.tags, <<>>),
     value |-> rowValue(g), popRating |-> calcPop(Some(g.item_popularity)),
     analyticsPriority |-> 0]

buildRow_OwnThreshold(g, valueP85) ==
    LET row == [id |-> g.id, title |-> g.title, category |-> g.category,
                price_min |-> g.price_min, price_max |-> g.price_max,
                query |-> g.query, query_popularity |-> g.query_popularity,
                item_popularity |-> g.item_popularity, score |-> g.score,
                tags |-> Coalesce(g.tags, <<>>),
                value |-> rowValue(g),
                popRating |-> calcPop(Some(g.item_popularity)),
                analyticsPriority |-> 0]
        status == analyticsStatus(row, row.value)
    IN [row EXCEPT !.analyticsPriority = status.priority]

buildRow(g, valueP85) ==
    LET row == [id |-> g.id, title |-> g.title, category |-> g.category,
                price_min |-> g.price_min, price_max |-> g.price_max,
                query |-> g.query, query_popularity |-> g.query_popularity,
                item_popularity |-> g.item_popularity, score |-> g.score,
                tags |-> Coalesce(g.tags, <<>>),
                value |-> rowValue(g),
                popRating |-> calcPop(Some(g.item_popularity)),
                analyticsPriority |-> 0]
        status == analyticsStatus(row, valueP85)
    IN [row EXCEPT !.analyticsPriority = status.priority]

SortKeys ==
    {"title", "category", "price_min", "item_popularity", "query_popularity",
     "score", "value", "analytics"}

\* typeof av === 'string': the fields of a row that hold strings.
IsStringKey(key) == key \in {"title", "category", "query"}

\* The numeric fields as rationals, so that av - bv has one meaning.
NumberOf(row, key) == IF key = "value" THEN row.value ELSE RatInt(row[key])

\* The comparator of data.sort in buildRows: negative, zero or positive.
compareRows_IgnoresDirection(a, b, key, dir) ==
    LET actualKey == IF key = "analytics" THEN "analyticsPriority" ELSE key
    IN IF IsStringKey(actualKey)
       THEN localeCompare(a[actualKey], b[actualKey])
       ELSE RatCompare(NumberOf(a, actualKey), NumberOf(b, actualKey))

compareRows(a, b, key, dir) ==
    LET actualKey == IF key = "analytics" THEN "analyticsPriority" ELSE key
    IN IF IsStringKey(actualKey)
       THEN IF dir = "asc" THEN localeCompare(a[actualKey], b[actualKey])
            ELSE localeCompare(b[actualKey], a[actualKey])
       ELSE IF dir = "asc"
            THEN RatCompare(NumberOf(a, actualKey), NumberOf(b, actualKey))
            ELSE RatCompare(NumberOf(b, actualKey), NumberOf(a, actualKey))

\* Array.prototype.sort is stable: r goes behind every element not after it.
RECURSIVE insertRow(_, _, _, _)
insertRow_BeforeEqual(sorted, r, key, dir) ==
    IF sorted = <<>> THEN <<r>>
    ELSE IF compareRows(Head(sorted), r, key, dir) >= 0 THEN <<r>> \o sorted
    ELSE <<Head(sorted)>> \o insertRow(Tail(sorted), r, key, dir)

insertRow(sorted, r, key, dir) ==
    IF sorted = <<>> THEN <<r>>
    ELSE IF compareRows(Head(sorted), r, key, dir) > 0 THEN <<r>> \o sorted
    ELSE <<Head(sorted)>> \o insertRow(Tail(sorted), r, key, dir)

RECURSIVE sortRows(_, _, _)
sortRows(data, key, dir) ==
    IF data = <<>> THEN <<>>
    ELSE insertRow(sortRows(SubSeq(data, 1, Len(data) - 1), key, dir),
                   data[Len(data)], key, dir)

\* buildRows(cat, search, sortKey, sortDir, valueP85) over the corpus gifts,
\* preceded by three variants of it.
buildRows_UntrimmedNeedle(gifts, cat, searchText, key, dir, valueP85) ==
    LET needle == toLowerCase(searchText)
        isTag  == startsWith(cat, TagPrefix)
        tagId  == IF isTag THEN slice(cat, 4) ELSE <<>>
        built  == [i \in DOMAIN gifts |-> buildRow(gifts[i], valueP85)]
        byCat  == IF isTag /\ tagId # <<>>
                  THEN SelectSeq(built, LAMBDA r : arrayIncludes(r.tags, tagId))
                  ELSE IF cat # All
                  THEN SelectSeq(built, LAMBDA r : r.category = cat)
                  ELSE built
        found  == IF needle # <<>>
                  THEN SelectSeq(byCat, LAMBDA r :
                          includes(toLowerCase(r.title), needle)
                          \/ includes(toLowerCase(r.category), needle))
                  ELSE byCat
    IN sortRows(found, key, dir)

buildRows_SearchOverridesCategory(gifts, cat, searchText, key, dir, valueP85) ==
    LET needle == toLowerCase(trim(searchText))
        isTag  == startsWith(cat, TagPrefix)
        tagId  == IF isTag THEN slice(cat, 4) ELSE <<>>
        built  == [i \in DOMAIN gifts |-> buildRow(gifts[i], valueP85)]
        byCat  == IF isTag /\ tagId # <<>>
                  THEN SelectSeq(built, LAMBDA r : arrayIncludes(r.tags, tagId))
                  ELSE IF cat # All
                  THEN SelectSeq(built, LAMBDA r : r.category = cat)
                  ELSE built
        found  == IF needle # <<>>
                  THEN SelectSeq(built, LAMBDA r :
                          includes(toLowerCase(r.title), needle)
                          \/ includes(toLowerCase(r.category), needle))
                  ELSE byCat
    IN sortRows(found, key, dir)

buildRows(gifts, cat, searchText, key, dir, valueP85) ==
    LET needle == toLowerCase(trim(searchText))
        isTag  == startsWith(cat, TagPrefix)
        tagId  == IF isTag THEN slice(cat, 4) ELSE <<>>
        built  == [i \in DOMAIN gifts |-> buildRow(gifts[i], valueP85)]
        byCat  == IF isTag /\ tagId # <<>>
                  THEN SelectSeq(built, LAMBDA r : arrayIncludes(r.tags, tagId))
                  ELSE IF cat # All
                  THEN SelectSeq(built, LAMBDA r : r.category = cat)
                  ELSE built
        found  == IF needle # <<>>
                  THEN SelectSeq(byCat, LAMBDA r :
                           \/ includes(toLowerCase(r.title), needle)
                           \/ includes(toLowerCase(r.category), needle))
                  ELSE byCat
    IN sortRows(found, key, dir)

\* The body of the useMemo that computes VALUE_P85.
positiveValues(gifts) ==
    LET kept == SelectSeq(gifts, LAMBDA g : g.price_min > 0)
    IN [i \in DOMAIN kept |-> Rat(kept[i].score, kept[i].price_min)]

RECURSIVE insertValue(_, _)
insertValue(sorted, v) ==
    IF sorted = <<>> THEN <<v>>
    ELSE IF RatLess(v, Head(sorted)) THEN <<v>> \o sorted
    ELSE <<Head(sorted)>> \o insertValue(Tail(sorted), v)

RECURSIVE sortValues(_)
sortValues(vs) ==
    IF vs = <<>> THEN <<>>
    ELSE insertValue(sortValues(SubSeq(vs, 1, Len(vs) - 1)), vs[Len(vs)])

\* Math.floor(n * 0.85)
p85Index(n) == (n * 85) \div 100

computeValueP85_Last(gifts) ==
    LET vals == sortValues(positiveValues(gifts))
    IN IF vals = <<>> THEN RatInt(0) ELSE vals[Len(vals)]

computeValueP85(gifts) ==
    LET vals == sortValues(positiveValues(gifts))
        idx  == p85Index(Len(vals))
    IN IF idx + 1 \in DOMAIN vals THEN vals[idx + 1] ELSE RatInt(0)

(***************************************************************************)
(* engine.ts: JavaScript numbers                                           *)
(***************************************************************************)
Fin(v) == [k |-> "fin", v |-> v]
NaN == [k |-> "nan", v |-> 0]
PosInf == [k |-> "inf", v |-> 1]
NegInf == [k |-> "inf", v |-> -1]

\* The value of an absent field, and the number the arithmetic converts it to.
Undefined == [k |-> "undef", v |-> 0]
ToNumber(x) == IF x.k = "undef" THEN NaN ELSE x

\* Number.isFinite
IsFinite(x) == x.k = "fin"

Sign(v) == IF v < 0 THEN -1 ELSE 1

\* a < b
JsLess(a, b) ==
    /\ a.k # "nan" /\ b.k # "nan"
    /\ IF a.k = b.k THEN a.v < b.v
       ELSE IF a.k = "inf" THEN a.v < 0
       ELSE b.v > 0

\* a === b
JsEq(a, b) == a.k # "nan" /\ b.k # "nan" /\ a = b

\* a <= b
JsLeq(a, b) == JsLess(a, b) \/ JsEq(a, b)

\* Math.max, Math.min of two arguments
MathMax(a, b) ==
    LET x == ToNumber(a)
        y == ToNumber(b)
    IN IF x.k = "nan" \/ y.k = "nan" THEN NaN ELSE IF JsLess(x, y) THEN y ELSE x

MathMin(a, b) ==
    LET x == ToNumber(a)
        y == ToNumber(b)
    IN IF x.k = "nan" \/ y.k = "nan" THEN NaN ELSE IF JsLess(y, x) THEN y ELSE x

\* -a
JsNeg(a) == IF a.k = "nan" THEN NaN ELSE [a EXCEPT !.v = -a.v]

\* a + b
JsAdd(a, b) ==
    IF a.k = "nan" \/ b.k = "nan" THEN NaN
    ELSE IF a.k = "inf" /\ b.k = "inf" THEN (IF a.v = b.v THEN a ELSE NaN)
    ELSE IF a.k = "inf" THEN a
    ELSE IF b.k = "inf" THEN b
    ELSE Fin(a.v + b.v)

\* Integer quotient truncated toward zero.
TruncDiv(n, d) == Sign(n) * Sign(d) * (Abs(n) \div Abs(d))

\* a * b
JsMul(a, b) ==
    IF a.k = "nan" \/ b.k = "nan" THEN NaN
    ELSE IF a.k = "inf" \/ b.k = "inf"
    THEN (IF a.v = 0 \/ b.v = 0 THEN NaN
          ELSE IF Sign(a.v) = Sign(b.v) THEN PosInf ELSE NegInf)
    ELSE Fin(TruncDiv(a.v * b.v, 1000))

\* a / b
JsDiv(a, b) ==
    IF a.k = "nan" \/ b.k = "nan" THEN NaN
    ELSE IF a.k = "inf"
    THEN (IF b.k = "inf" THEN NaN
          ELSE IF Sign(a.v) = Sign(b.v) THEN PosInf ELSE NegInf)
    ELSE IF b.k = "inf" THEN Fin(0)
    ELSE IF b.v = 0
    THEN (IF a.v = 0 THEN NaN ELSE IF a.v > 0 THEN PosInf ELSE NegInf)
    ELSE Fin(TruncDiv(a.v * 1000, b.v))

\* Math.exp, Math.log2, rounded to thousandths, on the arguments the model
\* uses: <<1000 * x, 1000 * exp(x)>> and <<1000 * x, 1000 * log2(x)>>.
ExpTable ==
    { <<100, 1105>>, <<0, 1000>>, <<-100, 905>>, <<-500, 607>>,
      <<-1000, 368>>, <<-2000, 135>>, <<-2027, 132>>, <<-4000, 18>> }

Log2Table ==
    { <<500, -1000>>, <<1000, 0>>, <<1500, 585>>, <<2000, 1000>>,
      <<4000, 2000>>, <<100000, 6644>>, <<349000, 8447>>,
      <<1000000, 9966>> }

\* Math.exp
MathExp(x) ==
    IF x.k = "nan" THEN NaN
    ELSE IF x.k = "inf" THEN (IF x.v > 0 THEN PosInf ELSE Fin(0))
    ELSE Fin((CHOOSE p \in ExpTable : p[1] = x.v)[2])

\* A logarithm given by a table; a table argument times unit is in
\* thousandths.
LogBy(table, unit, x) ==
    IF x.k = "nan" THEN NaN
    ELSE IF x.k = "inf" THEN (IF x.v > 0 THEN PosInf ELSE NaN)
    ELSE IF x.v < 0 THEN NaN
    ELSE IF x.v = 0 THEN NegInf
    ELSE Fin((CHOOSE p \in table : x.v % unit = 0 /\ p[1] = x.v \div unit)[2])

\* Math.log10, Math.log2
MathLog10(x) == LogBy(Log10Table, 1000, x)
MathLog2(x) == LogBy(Log2Table, 1, x)

(***************************************************************************)
(* engine.ts: calculateGiftScore, calculateValue                           *)
(***************************************************************************)
\* The sanitised inputs of calculateGiftScore (engine.ts:76-87).
sanitise_NoClamp(item) ==
    [stars |-> item.stars, days |-> item.daysSinceAdded,
     reviews |-> item.reviews, maxReviews |-> item.maxReviews,
     safePrice |-> MathMax(item.price, Fin(1000))]

sanitise_NoPriceFloor(item) ==
    [stars |-> MathMin(MathMax(item.stars, Fin(0)), Fin(5000)),
     days |-> MathMax(item.daysSinceAdded, Fin(0)),
     reviews |-> MathMax(item.reviews, Fin(0)),
     maxReviews |-> MathMax(item.maxReviews, Fin(0)),
     safePrice |-> item.price]

sanitise(item) ==
    [stars |-> MathMin(MathMax(item.stars, Fin(0)), Fin(5000)),
     days |-> MathMax(item.daysSinceAdded, Fin(0)),
     reviews |-> MathMax(item.reviews, Fin(0)),
     maxReviews |-> MathMax(item.maxReviews, Fin(0)),
     safePrice |-> MathMax(item.price, Fin(1000))]

\* calculateGiftScore(item): { R, N, Pop, weighted, score }
calculateGiftScore(item) ==
    LET clean == sanitise(item)
        R == JsMul(JsDiv(clean.stars, Fin(5000)), Fin(10000))
        N == JsMul(Fin(10000), MathExp(JsDiv(JsNeg(clean.days), Fin(180000))))
        Pop == IF JsLeq(clean.maxReviews, Fin(0)) THEN Fin(0)
               ELSE JsMul(JsDiv(MathLog10(JsAdd(clean.reviews, Fin(1000))),
                                MathLog10(JsAdd(clean.maxReviews, Fin(1000)))),
                          Fin(10000))
        weighted == JsAdd(JsAdd(JsMul(R, Fin(400)), JsMul(N, Fin(350))),
                          JsMul(Pop, Fin(250)))
        logPrice == MathLog2(clean.safePrice)
        score == IF JsEq(logPrice, Fin(0)) THEN weighted
                 ELSE JsDiv(weighted, logPrice)
    IN [R |-> R, N |-> N, Pop |-> Pop, weighted |-> weighted, score |-> score]

\* calculateValue(score, price)
calculateValue_NoGuard(score, price) == JsDiv(score, JsDiv(price, Fin(100000)))

calculateValue(score, price) ==
    IF ~IsFinite(score) \/ ~IsFinite(price) \/ JsLeq(price, Fin(0))
    THEN Fin(0)
    ELSE JsDiv(score, JsDiv(price, Fin(100000)))

\* evaluateGift(item): the score components with value and effectivePrice
evaluateGift(item) ==
    LET components == calculateGiftScore(item)
        effectivePrice == MathMax(item.price, Fin(1000))
        value == calculateValue(components.score, effectivePrice)
    IN [R |-> components.R, N |-> components.N, Pop |-> components.Pop,
        weighted |-> components.weighted, score |-> components.score,
        value |-> value, effectivePrice |-> effectivePrice]

(***************************************************************************)
(* unnamed/part_000: GiftTable                                             *)
(***************************************************************************)
\* A gift of GiftTable has an integer price (UAH) and a rating in tenths
\* (1.0 .. 5.0 is 10 .. 50); valueIndex is in tenths.  The emoji is left out.
Digits == <<"0", "1", "2", "3", "4", "5", "6", "7", "8", "9">>

IsDigit(c) == \E i \in DOMAIN Digits : Digits[i] = c

DigitValue(c) == (CHOOSE i \in DOMAIN Digits : Digits[i] = c) - 1

AllDigits(s) == \A i \in DOMAIN s : IsDigit(s[i])

RECURSIVE DecimalValue(_)
DecimalValue(s) ==
    IF s = <<>> THEN 0
    ELSE 10 * DecimalValue(SubSeq(s, 1, Len(s) - 1)) + DigitValue(s[Len(s)])

\* Number(s) for a string: blanks trimmed, the empty string is 0, a signed
\* decimal literal (digits, at most one point, up to three fraction digits) is
\* its value in thousandths, anything else NaN.  Exponents, hexadecimal
\* literals and "Infinity" are outside the strings of the model.
Number(s) ==
    LET t == trim(s)
        signed == t # <<>> /\ Head(t) \in {"+", "-"}
        u == IF signed THEN Tail(t) ELSE t
        dots == {i \in DOMAIN u : u[i] = "."}
        dot == IF dots = {} THEN Len(u) + 1
               ELSE CHOOSE i \in dots : \A j \in dots : i <= j
        whole == SubSeq(u, 1, dot - 1)
        frac == SubSeq(u, dot + 1, Len(u))
        magnitude == 1000 * DecimalValue(whole)
                       + DecimalValue(SubSeq(frac \o <<"0", "0", "0">>, 1, 3))
    IN IF t = <<>> THEN Fin(0)
       ELSE IF ~AllDigits(whole) \/ ~AllDigits(frac) \/ Len(whole) + Len(frac) = 0
       THEN NaN
       ELSE Fin(IF signed /\ Head(t) = "-" THEN -magnitude ELSE magnitude)

\* isNaN
isNaN(x) == ToNumber(x).k = "nan"

\* Math.round((g.price / g.rating) * 10) / 10 for a positive rating:
\* Math.round(x) is floor(x + 1/2).
valueIndex(g) == (200 * g.price + g.rating) \div (2 * g.rating)

giftRow(g) ==
    [id |-> g.id, name |-> g.name, category |-> g.category, price |-> g.price,
     rating |-> g.rating, valueIndex |-> valueIndex(g)]

GiftSortKeys == {"name", "category", "price", "rating", "valueIndex"}

\* The comparator of data.sort in GiftTable.
compareGifts(a, b, key, dir) ==
    IF key \in {"name", "category"}
    THEN IF dir = "asc" THEN localeCompare(a[key], b[key])
         ELSE localeCompare(b[key], a[key])
    ELSE IF dir = "asc" THEN a[key] - b[key] ELSE b[key] - a[key]

RECURSIVE insertGift(_, _, _, _)
insertGift(sorted, r, key, dir) ==
    IF sorted = <<>> THEN <<r>>
    ELSE IF compareGifts(Head(sorted), r, key, dir) > 0 THEN <<r>> \o sorted
    ELSE <<Head(sorted)>> \o insertGift(Tail(sorted), r, key, dir)

RECURSIVE sortGifts(_, _, _)
sortGifts(data, key, dir) ==
    IF data = <<>> THEN <<>>
    ELSE insertGift(sortGifts(SubSeq(data, 1, Len(data) - 1), key, dir),
                    data[Len(data)], key, dir)

\* The rows of GiftTable (useMemo) over the corpus gifts.
giftTableRows(gifts, cat, searchText, maxPrice, minRating, key, dir) ==
    LET mapped == [i \in DOMAIN gifts |-> giftRow(gifts[i])]
        byCat == IF cat # All
                 THEN SelectSeq(mapped, LAMBDA g : g.category = cat)
                 ELSE mapped
        found == IF trim(searchText) # <<>>
                 THEN SelectSeq(byCat, LAMBDA g :
                         includes(toLowerCase(g.name), toLowerCase(trim(searchText))))
                 ELSE byCat
        cheap == IF maxPrice # <<>> /\ ~isNaN(Number(maxPrice))
                 THEN SelectSeq(found, LAMBDA g :
                         JsLeq(Fin(1000 * g.price), Number(maxPrice)))
                 ELSE found
        rated == IF minRating # <<>> /\ ~isNaN(Number(minRating))
                 THEN SelectSeq(cheap, LAMBDA g :
                         JsLeq(Number(minRating), Fin(100 * g.rating)))
                 ELSE cheap
    IN sortGifts(rated, key, dir)

(***************************************************************************)
(* unnamed/part_005: cleanData                                             *)
(***************************************************************************)
\* A raw item has a title, a url and a price, all strings, and an integer
\* score.  Title prefixes that mark an article.
articleKeywords ==
    { <<"u044f", "u043a", " ">>,
      <<"u0449", "u043e", " ">>,
      <<"u0442", "u043e", "u043f", " ">>,
      <<"u0456", "u0434", "u0435", "u0457">>,
      <<"u0432", "u0430", "u0440", "u0456", "u0430", "u043d", "u0442", "u0438">>,
      <<"u043f", "u043e", "u0440", "u0430", "u0434", "u0438">>,
      <<"u0432", "u0438", "u0431", "u0440", "u0430", "u0442", "u0438">>,
      <<"u043e", "u0431", "u0456", "u0440", "u0430", "u0442", "u0438">>,
      <<"u043f", "u043e", "u0434", "u0430", "u0440", "u0443", "u043d", "u043a", "u0438", " ", "u0434", "u043b", "u044f">> }

\* item.price.replace(/\n/g, ' ')
replaceNewlines(s) == [i \in DOMAIN s |-> IF s[i] = "\n" THEN " " ELSE s[i]]

\* priceRaw.replace(/[^\d]/g, '')
priceDigits(priceRaw) == SelectSeq(priceRaw, IsDigit)

\* title.split(' ').length
splitLength(s) == Len(SelectSeq(s, LAMBDA c : c = " ")) + 1

\* /ціна|грн/i.test(priceRaw)
mentionsPrice(priceRaw) ==
    \/ includes(toLowerCase(priceRaw), <<"u0446", "u0456", "u043d", "u0430">>)
    \/ includes(toLowerCase(priceRaw), <<"u0433", "u0440", "u043d">>)

\* `${titleLower}_${priceDigits}`
duplicateKey(item) ==
    toLowerCase(trim(item.title)) \o <<"_">>
        \o priceDigits(trim(replaceNewlines(item.price)))

\* The callback of rawData.filter on one item, with the two sets as they are
\* before it: whether the item is kept, and the two sets after it.
filterItem(item, seenUrls, seenTitlePrice) ==
    LET title == trim(item.title)
        titleLower == toLowerCase(title)
        url == toLowerCase(item.url)
        priceRaw == trim(replaceNewlines(item.price))
        digits == priceDigits(priceRaw)
        rejected == [keep |-> FALSE, seenUrls |-> seenUrls,
                     seenTitlePrice |-> seenTitlePrice]
        count == Cardinality({x \in seenUrls : x = url})
        urls == seenUrls \cup {url}
        key == titleLower \o <<"_">> \o digits
        isCaps == title = toUpperCase(title) /\ Len(title) > 10
    IN IF \E k \in articleKeywords : startsWith(titleLower, k) THEN rejected
       ELSE IF Len(title) > 120 \/ splitLength(title) > 12 THEN rejected
       ELSE IF includes(title, <<"?">>) THEN rejected
       ELSE IF Len(digits) < 2 \/ Len(digits) > 6 THEN rejected
       ELSE IF includes(priceRaw, <<"-">>) THEN rejected
       ELSE IF mentionsPrice(priceRaw) /\ Len(priceRaw) > 15 THEN rejected
       ELSE IF url \in seenUrls /\ count > 5 THEN rejected
       ELSE IF key \in seenTitlePrice
       THEN [keep |-> FALSE, seenUrls |-> urls, seenTitlePrice |-> seenTitlePrice]
       ELSE [keep |-> ~isCaps, seenUrls |-> urls,
             seenTitlePrice |-> seenTitlePrice \cup {key}]

\* rawData.filter(...) from item i on.
RECURSIVE filterFrom(_, _, _, _)
filterFrom(rawData, i, seenUrls, seenTitlePrice) ==
    IF i > Len(rawData) THEN <<>>
    ELSE LET step == filterItem(rawData[i], seenUrls, seenTitlePrice)
             rest == filterFrom(rawData, i + 1, step.seenUrls, step.seenTitlePrice)
         IN IF step.keep THEN <<rawData[i]>> \o rest ELSE rest

\* cleaned.sort((a, b) => parseFloat(b.score) - parseFloat(a.score))
RECURSIVE insertByScore(_, _)
insertByScore(sorted, item) ==
    IF sorted = <<>> THEN <<item>>
    ELSE IF item.score - Head(sorted).score > 0
    THEN <<item>> \o sorted
    ELSE <<Head(sorted)>> \o insertByScore(Tail(sorted), item)

RECURSIVE sortByScore(_)
sortByScore(items) ==
    IF items = <<>> THEN <<>>
    ELSE insertByScore(sortByScore(SubSeq(items, 1, Len(items) - 1)),
                       items[Len(items)])

\* cleanData on the parsed input file: the items written to the output file.
cleanData(rawData) == sortByScore(filterFrom(rawData, 1, {}, {}))

(***************************************************************************)
(* Input domains                                                           *)
(***************************************************************************)
Toy == <<"T", "o", "y">>
Mug == <<"M", "u", "g">>
TagX == <<"x">>
TagY == <<"y">>

\* The items a corpus of the table specification is drawn from.
Pool ==
    { [id |-> 1, title |-> <<"T", "o", "y", " ", "a">>, category |-> Toy,
       price_min |-> 300, price_max |-> 350, query |-> <<"a">>,
       query_popularity |-> 10, item_popularity |-> 500, score |-> 950,
       tags |-> Some(<<TagX>>)],
      [id |-> 2, title |-> <<"m", "u", "g", " ", "B">>, category |-> Mug,
       price_min |-> 200, price_max |-> 200, query |-> <<"b">>,
       query_popularity |-> 10, item_popularity |-> 100, score |-> 950,
       tags |-> Some(<<TagX, TagY>>)],
      [id |-> 3, title |-> <<"A", "b">>, category |-> Toy,
       price_min |-> 100, price_max |-> 100, query |-> <<"a">>,
       query_popularity |-> 50, item_popularity |-> 500, score |-> 475,
       tags |-> None],
      [id |-> 4, title |-> <<"a", "b">>, category |-> Mug,
       price_min |-> 400, price_max |-> 400, query |-> <<"b">>,
       query_popularity |-> 0, item_popularity |-> 300, score |-> 920,
       tags |-> Some(<<>>)],
      [id |-> 5, title |-> <<"b", " ", "t", "o", "y">>, category |-> Toy,
       price_min |-> 0, price_max |-> 0, query |-> <<"a">>,
       query_popularity |-> 50, item_popularity |-> 50, score |-> 700,
       tags |-> Some(<<TagY>>)],
      [id |-> 6, title |-> <<"M", "u", "g">>, category |-> Mug,
       price_min |-> -5, price_max |-> 0, query |-> <<"b">>,
       query_popularity |-> 10, item_popularity |-> 100, score |-> 950,
       tags |-> None] }

\* gifts is a corpus of the table specification: at most MaxItems distinct
\* items of Pool.
IsCorpus(gifts) ==
    \E k \in 0..MaxItems :
        \E q \in [1..k -> Pool] :
            /\ \A i, j \in 1..k : i # j => q[i].id # q[j].id
            /\ gifts = q

\* The corpora of the percentile specification: item i is of one of three
\* kinds, two with a positive price and one with price 0.
LoadKinds ==
    { [price_min |-> 100, score |-> 950, item_popularity |-> 500],
      [price_min |-> 200, score |-> 400, item_popularity |-> 100],
      [price_min |-> 0, score |-> 800, item_popularity |-> 300] }

LoadGift(i, kind) ==
    [id |-> i, title |-> <<"a">>, category |-> Toy,
     price_min |-> kind.price_min, price_max |-> kind.price_min,
     query |-> <<"a">>, query_popularity |-> 0,
     item_popularity |-> kind.item_popularity, score |-> kind.score,
     tags |-> None]

\* gifts is a corpus of the percentile specification.
IsLoadCorpus(gifts) ==
    \E k \in 0..MaxCorpus :
        \E q \in [1..k -> LoadKinds] :
            gifts = [i \in 1..k |-> LoadGift(i, q[i])]

SearchTexts == { <<>>, <<" ">>, <<" ", "B">>, <<"t", "o", "y">> }

SidebarCategories == { All, Mug, TagPrefix \o TagX, TagPrefix }

\* The corpora of the query specification: the items 1, 2, 3 and 5 of Pool and
\* an item whose category is the string 'tag:'.
QueryPool ==
    { g \in Pool : g.id \in {1, 2, 3, 5} }
    \cup { [id |-> 7, title |-> <<"c">>, category |-> TagPrefix,
            price_min |-> 250, price_max |-> 250, query |-> <<"a">>,
            query_popularity |-> 10, item_popularity |-> 150, score |-> 800,
            tags |-> Some(<<TagX>>)] }

IsQueryCorpus(gifts) ==
    \E k \in 0..MaxItems :
        \E q \in [1..k -> QueryPool] :
            /\ \A i, j \in 1..k : i # j => q[i].id # q[j].id
            /\ gifts = q

QueryCategories ==
    { All, Mug, Toy, TagPrefix \o TagX, TagPrefix \o TagY, TagPrefix }

BuildRowsInputs ==
    [cat : QueryCategories, search : SearchTexts, sortKey : SortKeys,
     sortDir : {"asc", "desc"}]

\* The gifts a corpus of GiftTable is drawn from (rating in tenths).
GiftPool ==
    { [id |-> 1, name |-> <<"T", "o", "y", " ", "a">>, category |-> Toy,
       price |-> 300, rating |-> 45],
      [id |-> 2, name |-> <<"m", "u", "g", " ", "B">>, category |-> Mug,
       price |-> 200, rating |-> 40],
      [id |-> 3, name |-> <<"A", "b">>, category |-> Toy,
       price |-> 100, rating |-> 50],
      [id |-> 4, name |-> <<"a", "b">>, category |-> Mug,
       price |-> 450, rating |-> 30] }

IsGiftCorpus(gifts) ==
    \E k \in 0..MaxItems :
        \E q \in [1..k -> GiftPool] :
            /\ \A i, j \in 1..k : i # j => q[i].id # q[j].id
            /\ gifts = q

MaxPriceTexts == { <<>>, <<"a", "b", "c">>, <<" ">>, <<"2", "5", "0">> }
MinRatingTexts == { <<>>, <<"a", "b", "c">>, <<" ">>, <<"4", ".", "5">> }

GiftQueries ==
    [category : {All, Toy, Mug},
     search : { <<>>, <<" ">>, <<"t", "o", "y">> },
     maxPrice : MaxPriceTexts, minRating : MinRatingTexts,
     sortKey : GiftSortKeys, sortDir : {"asc", "desc"}]

\* ALL_CATEGORIES: 'All' and the categories of the corpus.
ALL_CATEGORIES == {All} \cup { GIFTS[i].category : i \in DOMAIN GIFTS }

(***************************************************************************)
(* PriceTable: the component                                               *)
(***************************************************************************)
effectiveCat == IF category # All THEN category ELSE categoryFilter

activeSortKey ==
    IF bestValue THEN "value"
    ELSE IF sortByPop THEN "item_popularity"
    ELSE sortKey

activeSortDir == IF bestValue \/ sortByPop THEN "desc" ELSE sortDir

\* The rows of the current render.
rows ==
    buildRows(GIFTS, effectiveCat, search, activeSortKey, activeSortDir, VALUE_P85)

\* The total shown next to the row count: the items of the effective category.
totalForCat(gifts, cat) ==
    IF cat = All THEN Len(gifts)
    ELSE IF startsWith(cat, TagPrefix)
    THEN LET tid == slice(cat, 4)
         IN Len(SelectSeq(gifts, LAMBDA g :
                    arrayIncludes(Coalesce(g.tags, <<>>), tid)))
    ELSE Len(SelectSeq(gifts, LAMBDA g : g.category = cat))

Idle == call = "none" /\ args = <<>> /\ ret = <<>>

InitComponent ==
    /\ mounted = FALSE
    /\ category = All
    /\ categoryFilter = All
    /\ search = <<>>
    /\ sortKey = "value"
    /\ sortDir = "desc"
    /\ bestValue = FALSE
    /\ sortByPop = FALSE
    /\ VALUE_P85 = RatInt(0)

Init ==
    /\ IsCorpus(GIFTS)
    /\ InitComponent
    /\ Idle

\* The first render: VALUE_P85 is computed once from the full corpus.
Mount ==
    /\ ~mounted
    /\ mounted' = TRUE
    /\ VALUE_P85' = computeValueP85(GIFTS)
    /\ UNCHANGED <<GIFTS, uiVars, callVars>>

handleColSort_KeepsToggles(key) ==
    /\ mounted
    /\ IF sortKey = key
       THEN /\ sortDir' = (IF sortDir = "asc" THEN "desc" ELSE "asc")
            /\ UNCHANGED sortKey
       ELSE /\ sortKey' = key
            /\ sortDir' = (IF key = "title" \/ key = "category" THEN "asc" ELSE "desc")
    /\ UNCHANGED <<GIFTS, mounted, category, categoryFilter, search, bestValue,
                   sortByPop, VALUE_P85, callVars>>

handleColSort_AlwaysDesc(key) ==
    /\ mounted
    /\ bestValue' = FALSE
    /\ sortByPop' = FALSE
    /\ IF sortKey = key
       THEN /\ sortDir' = (IF sortDir = "asc" THEN "desc" ELSE "asc")
            /\ UNCHANGED sortKey
       ELSE /\ sortKey' = key
            /\ sortDir' = "desc"
    /\ UNCHANGED <<GIFTS, mounted, category, categoryFilter, search, VALUE_P85, callVars>>

handleColSort(key) ==
    /\ mounted
    /\ bestValue' = FALSE
    /\ sortByPop' = FALSE
    /\ IF sortKey = key
       THEN /\ sortDir' = (IF sortDir = "asc" THEN "desc" ELSE "asc")
            /\ UNCHANGED sortKey
       ELSE /\ sortKey' = key
            /\ sortDir' = (IF key = "title" \/ key = "category" THEN "asc" ELSE "desc")
    /\ UNCHANGED <<GIFTS, mounted, category, categoryFilter, search, VALUE_P85, callVars>>

handleBestValue_KeepsStoredSort ==
    /\ mounted
    /\ IF bestValue
       THEN /\ bestValue' = FALSE
            /\ UNCHANGED sortByPop
       ELSE /\ sortByPop' = FALSE
            /\ bestValue' = TRUE
    /\ UNCHANGED <<GIFTS, mounted, category, categoryFilter, search, sortKey,
                   sortDir, VALUE_P85, callVars>>

handleBestValue ==
    /\ mounted
    /\ IF bestValue
       THEN /\ bestValue' = FALSE
            /\ UNCHANGED <<sortByPop, sortKey, sortDir>>
       ELSE /\ sortByPop' = FALSE
            /\ bestValue' = TRUE
            /\ sortKey' = "value"
            /\ sortDir' = "desc"
    /\ UNCHANGED <<GIFTS, mounted, category, categoryFilter, search, VALUE_P85, callVars>>

handleSortByPop_KeepsBestValue ==
    /\ mounted
    /\ IF sortByPop
       THEN /\ sortByPop' = FALSE
            /\ UNCHANGED <<sortKey, sortDir>>
       ELSE /\ sortByPop' = TRUE
            /\ sortKey' = "item_popularity"
            /\ sortDir' = "desc"
    /\ UNCHANGED <<GIFTS, mounted, category, categoryFilter, search, bestValue,
                   VALUE_P85, callVars>>

handleSortByPop ==
    /\ mounted
    /\ IF sortByPop
       THEN /\ sortByPop' = FALSE
            /\ UNCHANGED <<bestValue, sortKey, sortDir>>
       ELSE /\ bestValue' = FALSE
            /\ sortByPop' = TRUE
            /\ sortKey' = "item_popularity"
            /\ sortDir' = "desc"
    /\ UNCHANGED <<GIFTS, mounted, category, categoryFilter, search, VALUE_P85, callVars>>

\* onChange of the search box
setSearch(text) ==
    /\ mounted
    /\ search' = text
    /\ UNCHANGED <<GIFTS, mounted, category, categoryFilter, sortKey, sortDir,
                   bestValue, sortByPop, VALUE_P85, callVars>>

\* onChange of the category select, shown only while category is 'All'
setCategoryFilter(c) ==
    /\ mounted
    /\ category = All
    /\ c \in ALL_CATEGORIES
    /\ categoryFilter' = c
    /\ UNCHANGED <<GIFTS, mounted, category, search, sortKey, sortDir,
                   bestValue, sortByPop, VALUE_P85, callVars>>

\* The sidebar selects a category or a tag: the prop changes.
selectCategory(c) ==
    /\ mounted
    /\ category' = c
    /\ UNCHANGED <<GIFTS, mounted, categoryFilter, search, sortKey, sortDir,
                   bestValue, sortByPop, VALUE_P85, callVars>>

Next ==
    \/ Mount
    \/ \E key \in SortKeys : handleColSort(key)
    \/ handleBestValue
    \/ handleSortByPop
    \/ \E text \in SearchTexts : setSearch(text)
    \/ \E c \in {All, Toy, Mug} : setCategoryFilter(c)
    \/ \E c \in SidebarCategories : selectCategory(c)

Spec == Init /\ [][Next]_vars

\* The percentile specification: longer corpora, the first render only.
InitLoad ==
    /\ IsLoadCorpus(GIFTS)
    /\ InitComponent
    /\ Idle

NextLoad == Mount

SpecLoad == InitLoad /\ [][NextLoad]_vars

\* The inputs of cleanData: the items of RawCatalogue at any set of places, in
\* catalogue order, followed by at most one item of RejectedItems.  The
\* catalogue has eight items of one url (the last repeats the first's title
\* and price in another spelling), a title in capitals and its lower-case
\* twin, and a price with a currency word; every item of RejectedItems fails
\* one of the title or price tests.
RawCatalogue ==
    << [title |-> <<"a">>,
       url |-> <<"u">>, price |-> <<"1", "0">>,
       score |-> 5],
       [title |-> <<"b">>,
       url |-> <<"u">>, price |-> <<"1", "0">>,
       score |-> 3],
       [title |-> <<"c">>,
       url |-> <<"u">>, price |-> <<"1", "0">>,
       score |-> 9],
       [title |-> <<"d">>,
       url |-> <<"u">>, price |-> <<"1", "0">>,
       score |-> 1],
       [title |-> <<"e">>,
       url |-> <<"u">>, price |-> <<"1", "0">>,
       score |-> 7],
       [title |-> <<"f">>,
       url |-> <<"u">>, price |-> <<"1", "0">>,
       score |-> 2],
       [title |-> <<"g">>,
       url |-> <<"u">>, price |-> <<"1", "0">>,
       score |-> 8],
       [title |-> <<" ", "A", " ">>,
       url |-> <<"U">>, price |-> <<"1", "\n", "0">>,
       score |-> 4],
       [title |-> <<"A", "1", "2", "3", "4", "5", "6", "7", "8", "9", "0">>,
       url |-> <<"v">>, price |-> <<"9", "9">>,
       score |-> 5],
       [title |-> <<"a", "1", "2", "3", "4", "5", "6", "7", "8", "9", "0">>,
       url |-> <<"v">>, price |-> <<"9", "9">>,
       score |-> 6],
       [title |-> <<"h">>,
       url |-> <<"w">>, price |-> <<"1", "0", "0", " ", "u0433", "u0440", "u043d">>,
       score |-> 5] >>

RejectedItems ==
    { [title |-> <<"u042f", "u043a", " ", "a">>,
       url |-> <<"v">>, price |-> <<"1", "0">>,
       score |-> 6],
      [title |-> <<"h", "?">>,
       url |-> <<"w">>, price |-> <<"5", "0">>,
       score |-> 6],
      [title |-> <<"h">>,
       url |-> <<"w">>, price |-> <<"5", "-", "1", "0">>,
       score |-> 6],
      [title |-> <<"h">>,
       url |-> <<"w">>, price |-> <<"u0426", "u0456", "u043d", "u0430", " ", "u0432", "u0456", "u0434", " ", "1", "0", "0", " ", "u0433", "u0440", "u043d">>,
       score |-> 6],
      [title |-> <<"h">>,
       url |-> <<"w">>, price |-> <<"5">>,
       score |-> 6],
      [title |-> <<"h">>,
       url |-> <<"w">>, price |-> <<"1", " ", "2", "3", "4", " ", "5", "6", "7">>,
       score |-> 6],
      [title |-> <<"a", " ", "a", " ", "a", " ", "a", " ", "a", " ", "a", " ", "a", " ", "a", " ", "a", " ", "a", " ", "a", " ", "a", " ", "a">>,
       url |-> <<"w">>, price |-> <<"5", "0">>,
       score |-> 6] }

rawItemsAt(places) ==
    LET at == [i \in DOMAIN RawCatalogue |-> i]
        kept == SelectSeq(at, LAMBDA i : i \in places)
    IN [k \in DOMAIN kept |-> RawCatalogue[kept[k]]]

(***************************************************************************)
(* Pure functions applied to drawn inputs                                  *)
(***************************************************************************)
GiftInputs ==
    [stars : {Fin(-5000), NegInf, Fin(0), Fin(4500), Fin(5000), Fin(99000), PosInf},
     daysSinceAdded : {Fin(-18000), Fin(0), Fin(18000), Fin(180000), Fin(365000)},
     reviews : {Fin(-3000), Fin(0), Fin(9000), Fin(50000), Fin(99000), Fin(500000)},
     maxReviews : {Fin(-7000), Fin(0), Fin(9000), Fin(99000), Fin(500000)},
     price : {Fin(-10000), Fin(0), Fin(500), Fin(1000), Fin(1500), Fin(2000),
              Fin(100000), Fin(349000), Fin(1000000), PosInf, NegInf, NaN}]

ValueInputs ==
    [score : {Fin(-2000), Fin(0), Fin(1080), Fin(9500), NaN, PosInf, NegInf},
     price : {Fin(-100000), Fin(0), Fin(500), Fin(100000), Fin(349000),
              NaN, PosInf, NegInf}]

StatusInputs ==
    { [row |-> [score |-> g.score, item_popularity |-> g.item_popularity,
                price_min |-> g.price_min, value |-> rowValue(g)],
       valueP85 |-> p]
      : g \in [score : {0, 475, 900, 901, 950},
               item_popularity : {0, 199, 200, 300, 400, 401, 500},
               price_min : {-5, 0, 100, 200}],
        p \in {RatInt(0), Rat(1, 2), Rat(19, 4), Rat(9, 1), Rat(19, 2)} }

NoCorpus == GIFTS = <<>> /\ InitComponent

Apply(f, result) ==
    /\ call = f
    /\ ret = <<>>
    /\ ret' = result
    /\ UNCHANGED <<GIFTS, mounted, uiVars, VALUE_P85, call, args>>

Returned(f) == call = f /\ ret # <<>>

CalculateGiftScore == Apply("calculateGiftScore", calculateGiftScore(args))

CalculateValue == Apply("calculateValue", calculateValue(args.score, args.price))

AnalyticsStatus == Apply("analyticsStatus", analyticsStatus(args.row, args.valueP85))

\* calculateGiftScore on every drawn input.
InitScore == NoCorpus /\ call = "calculateGiftScore" /\ args \in GiftInputs /\ ret = <<>>
NextScore == CalculateGiftScore
SpecScore == InitScore /\ [][NextScore]_vars

\* evaluateGift on every drawn input.
EvaluateGift == Apply("evaluateGift", evaluateGift(args))
InitEvaluate == NoCorpus /\ call = "evaluateGift" /\ args \in GiftInputs /\ ret = <<>>
NextEvaluate == EvaluateGift
SpecEvaluate == InitEvaluate /\ [][NextEvaluate]_vars

\* cleanData on every drawn input file.
CleanData == Apply("cleanData", <<cleanData(args)>>)
InitClean ==
    /\ NoCorpus
    /\ call = "cleanData"
    /\ ret = <<>>
    /\ \E places \in SUBSET DOMAIN RawCatalogue :
          \E last \in {<<>>} \cup {<<x>> : x \in RejectedItems} :
              args = rawItemsAt(places) \o last
NextClean == CleanData
SpecClean == InitClean /\ [][NextClean]_vars

\* calculateGiftScore on inputs whose optional signals may be absent, next to
\* the first render of a corpus whose items may have no tags.
OptionalInputs ==
    [stars : {Fin(0), Fin(4500)},
     daysSinceAdded : {Undefined, Fin(0), Fin(18000)},
     reviews : {Undefined, Fin(0), Fin(9000)},
     maxReviews : {Fin(0), Fin(9000)},
     price : {Fin(1000), Fin(349000)}]

InitOptional ==
    /\ IsCorpus(GIFTS)
    /\ InitComponent
    /\ call = "calculateGiftScore" /\ args \in OptionalInputs /\ ret = <<>>
NextOptional == CalculateGiftScore \/ Mount
SpecOptional == InitOptional /\ [][NextOptional]_vars

\* calcPop on every drawn count, next to the first render of a corpus.
PopCounts ==
    {-5, -1, 0} \cup {p[1] : p \in {q \in Log10Table : q[1] <= Pow10(MaxExp)}}
PopInputs == {None} \cup {Some(n) : n \in PopCounts}

CalcPop == Apply("calcPop", <<calcPop(args)>>)

InitPop ==
    /\ IsCorpus(GIFTS)
    /\ InitComponent
    /\ call = "calcPop" /\ args \in PopInputs /\ ret = <<>>
NextPop == CalcPop \/ Mount
SpecPop == InitPop /\ [][NextPop]_vars

\* The two table queries on every drawn corpus and query: buildRows of
\* PriceTable over GIFTS with the threshold of that corpus, and the rows of
\* GiftTable over the corpus args.GIFTS.
BuildRows ==
    Apply("buildRows",
          <<buildRows(GIFTS, args.cat, args.search, args.sortKey, args.sortDir,
                      computeValueP85(GIFTS))>>)

GiftTableRows_SortsCorpus ==
    /\ call = "GiftTable"
    /\ ret = <<>>
    /\ ret' = <<giftTableRows(args.GIFTS, args.query.category, args.query.search,
                              args.query.maxPrice, args.query.minRating,
                              args.query.sortKey, args.query.sortDir)>>
    /\ args' = [args EXCEPT !.GIFTS = sortGifts(@, "price", args.query.sortDir)]
    /\ UNCHANGED <<GIFTS, mounted, uiVars, VALUE_P85, call>>

GiftTableRows ==
    Apply("GiftTable",
          <<giftTableRows(args.GIFTS, args.query.category, args.query.search,
                          args.query.maxPrice, args.query.minRating,
                          args.query.sortKey, args.query.sortDir)>>)

InitQuery ==
    /\ InitComponent
    /\ ret = <<>>
    /\ \/ /\ call = "buildRows"
          /\ IsQueryCorpus(GIFTS)
          /\ args \in BuildRowsInputs
       \/ /\ call = "GiftTable"
          /\ GIFTS = <<>>
          /\ \E c \in UNION {[1..k -> GiftPool] : k \in 0..MaxItems} :
                /\ IsGiftCorpus(c)
                /\ \E q \in GiftQueries : args = [GIFTS |-> c, query |-> q]
NextQuery == BuildRows \/ GiftTableRows
SpecQuery == InitQuery /\ [][NextQuery]_vars

\* The GiftTable component next to the PriceTable component.  The props and
\* the state of GiftTable are args (the corpus args.GIFTS and args.query:
\* the category prop and sortKey, sortDir, search, maxPrice, minRating); ret
\* holds the memoised rows, <<>> while a render is pending.
InitGiftTable ==
    /\ InitComponent
    /\ GIFTS = <<>>
    /\ call = "GiftTable"
    /\ ret = <<>>
    /\ \E k \in 0..MaxItems :
          \E c \in [1..k -> GiftPool] :
              /\ IsGiftCorpus(c)
              /\ args = [GIFTS |-> c,
                         query |-> [category |-> All, search |-> <<>>,
                                    maxPrice |-> <<>>, minRating |-> <<>>,
                                    sortKey |-> "valueIndex", sortDir |-> "asc"]]

\* A state update of GiftTable: the rows are recomputed by the next render.
SetGiftTable(q) ==
    /\ Returned("GiftTable")
    /\ args' = [args EXCEPT !.query = q]
    /\ ret' = <<>>
    /\ UNCHANGED <<GIFTS, mounted, uiVars, VALUE_P85, call>>

handleSort(key) ==
    SetGiftTable(IF args.query.sortKey = key
                 THEN [args.query EXCEPT
                          !.sortDir = IF @ = "asc" THEN "desc" ELSE "asc"]
                 ELSE [args.query EXCEPT !.sortKey = key, !.sortDir = "asc"])

setGiftSearch(text) == SetGiftTable([args.query EXCEPT !.search = text])

setMaxPrice(text) == SetGiftTable([args.query EXCEPT !.maxPrice = text])

setMinRating(text) == SetGiftTable([args.query EXCEPT !.minRating = text])

\* The clear button, shown while a filter is set.
clearFilters ==
    /\ Returned("GiftTable")
    /\ args.query.search # <<>> \/ args.query.maxPrice # <<>>
         \/ args.query.minRating # <<>>
    /\ SetGiftTable([args.query EXCEPT !.search = <<>>, !.maxPrice = <<>>,
                                       !.minRating = <<>>])

\* The sidebar selects a category: the prop of GiftTable changes.
selectGiftCategory(c) == SetGiftTable([args.query EXCEPT !.category = c])

NextGiftTable ==
    \/ GiftTableRows
    \/ \E key \in GiftSortKeys : handleSort(key)
    \/ \E text \in { <<>>, <<" ">>, <<"t", "o", "y">> } : setGiftSearch(text)
    \/ \E text \in MaxPriceTexts : setMaxPrice(text)
    \/ \E text \in MinRatingTexts : setMinRating(text)
    \/ clearFilters
    \/ \E c \in {All, Toy, Mug} : selectGiftCategory(c)

\* Either table on the page: PriceTable over GIFTS, or GiftTable.
InitTables == Init \/ InitGiftTable
NextTables ==
    \/ call = "none" /\ Mount
    \/ \E key \in SortKeys : handleColSort(key)
    \/ handleBestValue
    \/ handleSortByPop
    \/ \E text \in SearchTexts : setSearch(text)
    \/ \E c \in {All, Toy, Mug} : setCategoryFilter(c)
    \/ \E c \in SidebarCategories : selectCategory(c)
    \/ NextGiftTable
SpecTables == InitTables /\ [][NextTables]_vars

\* analyticsStatus on every drawn row and threshold.
InitStatus == NoCorpus /\ call = "analyticsStatus" /\ args \in StatusInputs /\ ret = <<>>
NextStatus == AnalyticsStatus
SpecStatus == InitStatus /\ [][NextStatus]_vars

\* calculateValue on every drawn input, next to the first render of a corpus.
InitValue ==
    /\ IsCorpus(GIFTS)
    /\ InitComponent
    /\ call = "calculateValue" /\ args \in ValueInputs /\ ret = <<>>
NextValue == CalculateValue \/ Mount
SpecValue == InitValue /\ [][NextValue]_vars

(***************************************************************************)
(* The documented priority of each label (PriceTable.tsx:94-97)            *)
(***************************************************************************)
PriorityLabel(p) ==
    CASE p = 5 -> "Stiikyi popyt"
      [] p = 4 -> "Obgruntovanyi vybir"
      [] p = 3 -> "Nishevyi favoryt"
      [] p = 2 -> "Vysoka zatrebuvanist"
      [] p = 1 -> "Standartna propozytsiia"

(***************************************************************************)
(* Claims                                                                  *)
(***************************************************************************)
TierFive(r) == r.score > 900 /\ r.item_popularity > 400
TierThree(r) == r.score > 900 /\ r.item_popularity < 200
MeetsP85(r, p) == RatLeq(p, r.value)

\* C1: analyticsStatus is a first-match decision list: a row with
\* score > 9.0 and item_popularity > 400 receives priority 5, for every
\* valueP85, whether or not value >= valueP85 holds as well.
C1_TierFiveWinsOverTierFour ==
    Returned("analyticsStatus") /\ TierFive(args.row) => ret.priority = 5

C1_Witness ==
    /\ Returned("analyticsStatus")
    /\ TierFive(args.row)
    /\ MeetsP85(args.row, args.valueP85)
    /\ ret.priority = 5

\* C2: every row returned by buildRows has analyticsPriority in 1..5 (the
\* temporary 0 never escapes), it is the priority analyticsStatus gives the
\* row, and the label returned is the one documented for that priority.
C2_PriorityInRangeAndLabelled ==
    mounted =>
        \A rs \in {rows} : \A i \in DOMAIN rs :
            \A status \in {analyticsStatus(rs[i], VALUE_P85)} :
                /\ rs[i].analyticsPriority \in 1..5
                /\ rs[i].analyticsPriority = status.priority
                /\ status.label = PriorityLabel(rs[i].analyticsPriority)

C2_Witness ==
    /\ mounted
    /\ \E rs \in {rows} : \E i, j \in DOMAIN rs :
          rs[i].analyticsPriority = 5 /\ rs[j].analyticsPriority = 1

\* C3: a row that does not meet the priority-5 condition and has
\* value >= valueP85 receives priority 4, also when it meets the priority-3
\* condition or the priority-2 condition.
C3_TierFourWinsOverLowerTiers ==
    Returned("analyticsStatus") /\ ~TierFive(args.row)
        /\ MeetsP85(args.row, args.valueP85)
    => ret.priority = 4

C3_Witness ==
    /\ Returned("analyticsStatus")
    /\ TierThree(args.row)
    /\ MeetsP85(args.row, args.valueP85)
    /\ ret.priority = 4

\* C4: analyticsStatus returns priority 1 exactly when value < valueP85,
\* item_popularity <= 400 and not (score > 9.0 and item_popularity < 200).
C4_DefaultExactlyWhenNothingMatches ==
    Returned("analyticsStatus") =>
        (ret.priority = 1 <=>
            /\ ~MeetsP85(args.row, args.valueP85)
            /\ args.row.item_popularity <= 400
            /\ ~TierThree(args.row))

C4_Witness ==
    /\ Returned("analyticsStatus")
    /\ args.row.score > 900
    /\ args.row.item_popularity \in 200..400
    /\ ~MeetsP85(args.row, args.valueP85)
    /\ ret.priority = 1

\* The corpus items with a positive price, and the value of one of them.
PositivePriced == { i \in DOMAIN GIFTS : GIFTS[i].price_min > 0 }
ValueOfItem(i) == Rat(GIFTS[i].score, GIFTS[i].price_min)

\* C5: with n the number of corpus items with price_min > 0 and n >= 1,
\* floor(n * 0.85) is an index below n and VALUE_P85 is the value at that
\* index of the ascending order of the values of those n items: at most
\* floor(n * 0.85) of them are smaller and more than floor(n * 0.85) are not
\* larger.  Items with price_min <= 0 are not counted.
C5_ValueP85IsOrderStatistic ==
    mounted /\ PositivePriced # {} =>
        LET n == Cardinality(PositivePriced)
            idx == CHOOSE k \in 0..n : 100 * k <= 85 * n /\ 85 * n < 100 * (k + 1)
        IN /\ idx < n
           /\ \E i \in PositivePriced :
                /\ VALUE_P85 = ValueOfItem(i)
                /\ Cardinality({ j \in PositivePriced :
                       RatLess(ValueOfItem(j), VALUE_P85) }) <= idx
                /\ Cardinality({ j \in PositivePriced :
                       RatLeq(ValueOfItem(j), VALUE_P85) }) > idx

C5_Witness ==
    /\ mounted
    /\ Cardinality(PositivePriced) >= 7
    /\ \E i \in DOMAIN GIFTS : GIFTS[i].price_min <= 0
    /\ \E i \in PositivePriced : RatLess(VALUE_P85, ValueOfItem(i))

\* C6: when no corpus item has price_min > 0, VALUE_P85 is 0, a query
\* without filters returns one row per item, and each row has priority 5 or
\* 3 by the conditions that do not use the threshold, and priority 1
\* otherwise.
C6_NoThresholdNoTierFour ==
    mounted /\ PositivePriced = {} =>
        /\ VALUE_P85 = RatInt(0)
        /\ \A rs \in {rows} :
              /\ effectiveCat = All /\ trim(search) = <<>> => Len(rs) = Len(GIFTS)
              /\ \A i \in DOMAIN rs :
                    rs[i].analyticsPriority =
                        IF TierFive(rs[i]) THEN 5
                        ELSE IF TierThree(rs[i]) THEN 3
                        ELSE 1

\* C7: calculateValue(score, price) is 0 whenever price <= 0 or score or
\* price is not finite, and when score = 0 and price > 0; buildRows gives
\* value 0 to every item with price_min <= 0.
C7_NoDivisionByNonPositivePrice ==
    /\ Returned("calculateValue") =>
          /\ (~IsFinite(args.score) \/ ~IsFinite(args.price)
                 \/ JsLeq(args.price, Fin(0))) => ret = Fin(0)
          /\ (args.score = Fin(0) /\ IsFinite(args.price)
                 /\ JsLess(Fin(0), args.price)) => ret = Fin(0)
    /\ mounted =>
          \A rs \in {rows} : \A i \in DOMAIN rs :
              rs[i].price_min <= 0 => rs[i].value = RatInt(0)

C7_Witness ==
    /\ Returned("calculateValue")
    /\ IsFinite(args.score) /\ args.score # Fin(0)
    /\ IsFinite(args.price) /\ JsLeq(args.price, Fin(0))
    /\ ret = Fin(0)
    /\ mounted
    /\ \E rs \in {rows} : \E i \in DOMAIN rs :
          rs[i].price_min < 0 /\ rs[i].value = RatInt(0)

\* The input with every out-of-range signal replaced by the bound it is
\* clamped to.
ClampedInput(item) ==
    [item EXCEPT
        !.stars = IF JsLess(item.stars, Fin(0)) THEN Fin(0)
                  ELSE IF JsLess(Fin(5000), item.stars) THEN Fin(5000)
                  ELSE item.stars,
        !.daysSinceAdded = IF JsLess(item.daysSinceAdded, Fin(0)) THEN Fin(0)
                           ELSE item.daysSinceAdded,
        !.reviews = IF JsLess(item.reviews, Fin(0)) THEN Fin(0) ELSE item.reviews,
        !.maxReviews = IF JsLess(item.maxReviews, Fin(0)) THEN Fin(0)
                       ELSE item.maxReviews]

\* C8: calculateGiftScore clamps: stars < 0 gives the components of stars = 0,
\* stars > 5 those of stars = 5, and negative daysSinceAdded, reviews or
\* maxReviews those of 0, the other inputs being equal.
C8_ClampsOutOfRangeInputs ==
    Returned("calculateGiftScore") => ret = calculateGiftScore(ClampedInput(args))

C8_Witness ==
    /\ Returned("calculateGiftScore")
    /\ JsLess(Fin(5000), args.stars)
    /\ JsLess(args.daysSinceAdded, Fin(0))
    /\ JsLess(args.reviews, Fin(0))
    /\ JsLess(Fin(0), args.maxReviews)
    /\ ret.R = Fin(10000) /\ ret.N = Fin(10000) /\ ret.Pop = Fin(0)

\* C9: for price <= 1 (0 and negative prices included) calculateGiftScore
\* returns score = weighted; for price > 1 the divisor log2(price) is
\* positive and score = weighted / log2(price).
C9_PriceFloorSkipsDivisor ==
    Returned("calculateGiftScore") =>
        /\ JsLeq(args.price, Fin(1000)) => ret.score = ret.weighted
        /\ JsLess(Fin(1000), args.price) =>
              /\ JsLess(Fin(0), MathLog2(args.price))
              /\ ret.score = JsDiv(ret.weighted, MathLog2(args.price))

C9_Witness ==
    /\ Returned("calculateGiftScore")
    /\ JsLess(args.price, Fin(0))
    /\ IsFinite(ret.weighted) /\ ret.weighted # Fin(0)
    /\ ret.score = ret.weighted

\* C10: for every input Pop is in [0, 10] (0 when maxReviews <= 0), also
\* when reviews exceed maxReviews; R is in [0, 10] and N in (0, 10].
C10_ComponentsWithinRange ==
    Returned("calculateGiftScore") =>
        /\ JsLeq(Fin(0), ret.Pop) /\ JsLeq(ret.Pop, Fin(10000))
        /\ JsLeq(args.maxReviews, Fin(0)) => ret.Pop = Fin(0)
        /\ JsLeq(Fin(0), ret.R) /\ JsLeq(ret.R, Fin(10000))
        /\ JsLess(Fin(0), ret.N) /\ JsLeq(ret.N, Fin(10000))

\* The score of the price normalisation, from the returned weighted sum
\* (engine.ts:113-114).
NormalisedScore(weighted, price) ==
    LET logPrice == MathLog2(MathMax(price, Fin(1000)))
    IN IF JsEq(logPrice, Fin(0)) THEN weighted ELSE JsDiv(weighted, logPrice)

\* C11: whenever the score computed by calculateGiftScore is <= 0, the
\* returned score is price * 0.10 if price > 0 and 0 otherwise.
C11_NonPositiveScoreFallsBack ==
    Returned("calculateGiftScore") =>
        (JsLeq(NormalisedScore(ret.weighted, args.price), Fin(0)) =>
            ret.score = IF JsLess(Fin(0), args.price)
                        THEN JsMul(args.price, Fin(100))
                        ELSE Fin(0))

\* The input with an absent reviews or daysSinceAdded replaced by 0, and the
\* corpus with absent tags replaced by the empty list.
AbsentAsZero(item) ==
    [item EXCEPT
        !.reviews = IF @ = Undefined THEN Fin(0) ELSE @,
        !.daysSinceAdded = IF @ = Undefined THEN Fin(0) ELSE @]

AbsentTagsAsEmpty(gifts) ==
    [i \in DOMAIN gifts |-> [gifts[i] EXCEPT !.tags = Some(Coalesce(@, <<>>))]]

\* The two halves of C12.
AbsentSignalsCountAsZero ==
    Returned("calculateGiftScore") => ret = calculateGiftScore(AbsentAsZero(args))

AbsentTagsCountAsEmpty ==
    mounted =>
        \A c \in SidebarCategories :
            buildRows(GIFTS, c, search, activeSortKey, activeSortDir, VALUE_P85)
              = buildRows(AbsentTagsAsEmpty(GIFTS), c, search, activeSortKey,
                          activeSortDir, VALUE_P85)

\* C12: calculateGiftScore with reviews or daysSinceAdded absent returns the
\* components it returns with that field equal to 0, and buildRows treats an
\* item with absent tags as an item with the empty tag list.
C12_AbsentOptionalFieldsAreNeutral ==
    AbsentSignalsCountAsZero /\ AbsentTagsCountAsEmpty

\* C13: calcPop(10^k) = clamp(k - 1, 0, 5) for every k >= 0 (calcPop(100) = 1,
\* calcPop(10000) = 3, calcPop(1000000) = 5), and calcPop(0) = 0.
C13_CalibratedOnPowersOfTen ==
    Returned("calcPop") =>
        /\ \A k \in 0..MaxExp :
              args = Some(Pow10(k)) => ret[1] = Min(5000, Max(0, 1000 * (k - 1)))
        /\ args = Some(0) => ret[1] = 0

C13_Witness ==
    /\ Returned("calcPop")
    /\ args = Some(10000)
    /\ ret[1] = 3000

\* C14: for every raw count n, missing included, calcPop(n) is in [0, 5]; it
\* is 0 for n <= 0, for a missing n and for n in 1..10, it is 5 for
\* n >= 1000000, and it is non-decreasing in n.
C14_PopRatingBoundedAndMonotone ==
    Returned("calcPop") =>
        /\ 0 <= ret[1] /\ ret[1] <= 5000
        /\ (args = None \/ args[1] <= 10) => ret[1] = 0
        /\ (args # None /\ args[1] >= 1000000) => ret[1] = 5000
        /\ \A m \in PopCounts :
              (args # None /\ m <= args[1]) => calcPop(Some(m)) <= ret[1]

C14_Witness ==
    /\ Returned("calcPop")
    /\ args # None /\ args[1] > 1000000
    /\ ret[1] = 5000
    /\ \E m \in PopCounts : m < args[1] /\ 0 < calcPop(Some(m)) /\ calcPop(Some(m)) < 5000

\* row is the row of the corpus item g: the fields of the item are kept.
IsRowOf(row, g) ==
    /\ \A f \in {"id", "title", "category", "price_min", "price_max", "query",
                 "query_popularity", "item_popularity", "score"} : row[f] = g[f]
    /\ row.tags = Coalesce(g.tags, <<>>)

IsGiftRowOf(row, g) ==
    \A f \in {"id", "name", "category", "price", "rating"} : row[f] = g[f]

\* C15: with category 'All', an empty or blank search text and no price or
\* rating filter, the query returns one row per corpus item: the result has
\* the length of the corpus and is a permutation of it (the ids of a corpus
\* are distinct), for every sort key and direction.
C15_UnfilteredQueryIsPermutation ==
    /\ (Returned("buildRows") /\ args.cat = All /\ trim(args.search) = <<>>) =>
          /\ Len(ret[1]) = Len(GIFTS)
          /\ \A i \in DOMAIN GIFTS :
                \E j \in DOMAIN ret[1] : IsRowOf(ret[1][j], GIFTS[i])
    /\ (Returned("GiftTable") /\ args.query.category = All
          /\ trim(args.query.search) = <<>>
          /\ args.query.maxPrice = <<>> /\ args.query.minRating = <<>>) =>
          /\ Len(ret[1]) = Len(args.GIFTS)
          /\ \A i \in DOMAIN args.GIFTS :
                \E j \in DOMAIN ret[1] : IsGiftRowOf(ret[1][j], args.GIFTS[i])

C15_Witness ==
    /\ Returned("buildRows")
    /\ args.cat = All /\ args.search = <<" ">>
    /\ Len(GIFTS) = 2 /\ Len(ret[1]) = 2
    /\ ret[1][1].id = GIFTS[2].id
    /\ \E i \in DOMAIN GIFTS : includes(GIFTS[i].title, <<" ">>)
    /\ \E i \in DOMAIN GIFTS : ~includes(GIFTS[i].title, <<" ">>)

\* The corpus item g passes the free-text search of buildRows.
PassesSearch(g, searchText) ==
    LET needle == toLowerCase(trim(searchText))
    IN needle = <<>>
       \/ includes(toLowerCase(g.title), needle)
       \/ includes(toLowerCase(g.category), needle)

\* The ids of a sequence of rows, and the ids of the corpus items that pass
\* the search and have the tag id, or the category cat.
IdsOf(rs) == { rs[j].id : j \in DOMAIN rs }

TaggedIds(id, searchText) ==
    { GIFTS[i].id : i \in { k \in DOMAIN GIFTS :
          /\ PassesSearch(GIFTS[k], searchText)
          /\ arrayIncludes(Coalesce(GIFTS[k].tags, <<>>), id) } }

CategoryIds(cat, searchText) ==
    { GIFTS[i].id : i \in { k \in DOMAIN GIFTS :
          /\ PassesSearch(GIFTS[k], searchText)
          /\ GIFTS[k].category = cat } }

\* C16: when cat is 'tag:<id>' the result of buildRows holds exactly the corpus
\* items passing the search whose tags contain <id>, whatever their category;
\* otherwise, when cat is not 'All', exactly those whose category equals cat;
\* for every cat, 'tag:' with the empty id included.
C16_TagFilterForEveryTagString ==
    Returned("buildRows") =>
        IF startsWith(args.cat, TagPrefix)
        THEN IdsOf(ret[1]) = TaggedIds(slice(args.cat, 4), args.search)
        ELSE args.cat # All => IdsOf(ret[1]) = CategoryIds(args.cat, args.search)

\* The lower-cased title (name) or the lower-cased category contains the
\* trimmed, lower-cased search text.
TextMatches(title, cat, searchText) ==
    LET needle == toLowerCase(trim(searchText))
    IN includes(toLowerCase(title), needle) \/ includes(toLowerCase(cat), needle)

\* The two halves of C17: the rows returned are the rows of the same query
\* with an empty search text whose title or category matches.
BuildRowsSearchKeeps ==
    Returned("buildRows") =>
        \A all \in {buildRows(GIFTS, args.cat, <<>>, args.sortKey, args.sortDir,
                              computeValueP85(GIFTS))} :
            IdsOf(ret[1]) =
                { all[j].id : j \in { k \in DOMAIN all :
                      TextMatches(all[k].title, all[k].category, args.search) } }

GiftTableSearchKeeps ==
    Returned("GiftTable") =>
        \A all \in {giftTableRows(args.GIFTS, args.query.category, <<>>,
                                  args.query.maxPrice, args.query.minRating,
                                  args.query.sortKey, args.query.sortDir)} :
            IdsOf(ret[1]) =
                { all[j].id : j \in { k \in DOMAIN all :
                      TextMatches(all[k].name, all[k].category, args.query.search) } }

\* C17: the free-text search keeps a row if and only if its lower-cased title
\* or its lower-cased category contains the trimmed, lower-cased search text,
\* in buildRows of PriceTable and in GiftTable.
C17_SearchMatchesTitleOrCategory ==
    BuildRowsSearchKeeps /\ GiftTableSearchKeeps

\* The string is a number: it is not blank and Number of it is not NaN.
IsNumberText(s) == trim(s) # <<>> /\ ~isNaN(Number(s))

\* C18: in GiftTable a maxPrice or minRating string that is not a number
\* ('abc', or a blank string) leaves that filter inactive: the rows are the
\* rows obtained with that filter input empty.
C18_NonNumericFilterIsInactive ==
    Returned("GiftTable") =>
        /\ ~IsNumberText(args.query.maxPrice) =>
              ret[1] = giftTableRows(args.GIFTS, args.query.category,
                                     args.query.search, <<>>,
                                     args.query.minRating, args.query.sortKey,
                                     args.query.sortDir)
        /\ ~IsNumberText(args.query.minRating) =>
              ret[1] = giftTableRows(args.GIFTS, args.query.category,
                                     args.query.search, args.query.maxPrice,
                                     <<>>, args.query.sortKey,
                                     args.query.sortDir)

\* The set of the rows of a result.
RowSet(rs) == { rs[j] : j \in DOMAIN rs }

\* The rows of buildRows, as a set, for the query of the call with the
\* category cat and the search text.
BuildRowsSet(cat, searchText) ==
    RowSet(buildRows(GIFTS, cat, searchText, args.sortKey, args.sortDir,
                     computeValueP85(GIFTS)))

GiftTableSet(cat, searchText, maxPrice, minRating) ==
    RowSet(giftTableRows(args.GIFTS, cat, searchText, maxPrice, minRating,
                         args.query.sortKey, args.query.sortDir))

\* C19: the filters compose as a conjunction: the set of rows returned is the
\* intersection of the sets returned when each filter (category/tag, search,
\* price ceiling, rating floor) is applied alone.
C19_FiltersComposeAsIntersection ==
    /\ Returned("buildRows") =>
          RowSet(ret[1]) = BuildRowsSet(args.cat, <<>>)
                             \cap BuildRowsSet(All, args.search)
    /\ Returned("GiftTable") =>
          RowSet(ret[1]) = GiftTableSet(args.query.category, <<>>, <<>>, <<>>)
                             \cap GiftTableSet(All, args.query.search, <<>>, <<>>)
                             \cap GiftTableSet(All, <<>>, args.query.maxPrice, <<>>)
                             \cap GiftTableSet(All, <<>>, <<>>, args.query.minRating)

C19_Witness ==
    /\ Returned("buildRows")
    /\ args.cat # All /\ trim(args.search) # <<>>
    /\ ret[1] = <<>>
    /\ BuildRowsSet(args.cat, <<>>) # {}
    /\ BuildRowsSet(All, args.search) # {}

\* The key of row a is <= the key of row b: string comparison for title and
\* category, analyticsPriority for 'analytics', the number otherwise.
KeyLeq(a, b, key) ==
    IF key \in {"title", "category"} THEN localeCompare(a[key], b[key]) <= 0
    ELSE IF key = "analytics" THEN a.analyticsPriority <= b.analyticsPriority
    ELSE IF key = "value" THEN RatLeq(a.value, b.value)
    ELSE a[key] <= b[key]

\* C20: the rows returned by buildRows are ordered by the requested key: of
\* every adjacent pair the first key is <= the second for 'asc' and >= for
\* 'desc'; 'analytics' orders by analyticsPriority, title and category by
\* string comparison.
C20_RowsOrderedByKey ==
    Returned("buildRows") =>
        \A j \in 1..(Len(ret[1]) - 1) :
            IF args.sortDir = "asc"
            THEN KeyLeq(ret[1][j], ret[1][j + 1], args.sortKey)
            ELSE KeyLeq(ret[1][j + 1], ret[1][j], args.sortKey)

C20_Witness ==
    /\ Returned("buildRows")
    /\ args.sortKey = "title" /\ args.sortDir = "desc"
    /\ Len(ret[1]) = 2
    /\ ret[1][1].id = GIFTS[2].id
    /\ localeCompare(ret[1][1].title, ret[1][2].title) > 0

\* The position in the corpus of the item with the given id.
CorpusIndex(id) == CHOOSE i \in DOMAIN GIFTS : GIFTS[i].id = id

OtherDir(dir) == IF dir = "asc" THEN "desc" ELSE "asc"

\* C21: the sort is stable: rows with equal sort keys come in their corpus
\* order, for 'asc' and for 'desc'; so sorting the result in the other
\* direction and back again gives the same sequence.
C21_SortIsStable ==
    Returned("buildRows") =>
        /\ \A i, j \in DOMAIN ret[1] :
              (/\ i < j
               /\ KeyLeq(ret[1][i], ret[1][j], args.sortKey)
               /\ KeyLeq(ret[1][j], ret[1][i], args.sortKey))
              => CorpusIndex(ret[1][i].id) < CorpusIndex(ret[1][j].id)
        /\ sortRows(sortRows(ret[1], args.sortKey, OtherDir(args.sortDir)),
                    args.sortKey, args.sortDir) = ret[1]
        /\ buildRows(GIFTS, args.cat, args.search, args.sortKey,
                     OtherDir(OtherDir(args.sortDir)), computeValueP85(GIFTS))
             = ret[1]

C21_Witness ==
    /\ Returned("buildRows")
    /\ args.sortDir = "desc" /\ args.sortKey = "score"
    /\ Len(ret[1]) = 2
    /\ ret[1][1].score = ret[1][2].score
    /\ ret[1][1].id > ret[1][2].id
    /\ CorpusIndex(ret[1][1].id) = 1

\* C22: after any sequence of queries the corpus is unchanged (same items,
\* same order, same field values), in PriceTable and in GiftTable, and the
\* rows of a query are those computed from the corpus and the parameters of
\* that query alone, whatever queries ran before.
C22_QueriesLeaveCorpusUnchanged ==
    /\ [][/\ GIFTS' = GIFTS
          /\ call = "GiftTable" => args'.GIFTS = args.GIFTS]_vars
    /\ [](Returned("GiftTable") =>
            ret[1] = giftTableRows(args.GIFTS, args.query.category,
                                   args.query.search, args.query.maxPrice,
                                   args.query.minRating, args.query.sortKey,
                                   args.query.sortDir))

C22_Witness ==
    /\ Returned("GiftTable")
    /\ args.query.sortKey = "price" /\ args.query.sortDir = "desc"
    /\ args.query.search # <<>>
    /\ Len(ret[1]) = 2
    /\ ret[1][1].id = args.GIFTS[2].id
    /\ args.GIFTS[1].price < args.GIFTS[2].price

\* C23: in every state reachable by handleColSort, handleBestValue and
\* handleSortByPop events the toggles bestValue and sortByPop are never both
\* true.
C23_TogglesMutuallyExclusive == ~(bestValue /\ sortByPop)

C23_Witness ==
    /\ mounted
    /\ sortByPop /\ ~bestValue
    /\ sortKey = "item_popularity"
    /\ search # <<>>

\* C24: every handleColSort(key) event leaves bestValue and sortByPop false,
\* and the active sort key right after it is the clicked key.
C24_ColumnSortClearsToggles ==
    [][\A key \in SortKeys :
          handleColSort(key) =>
              /\ ~bestValue' /\ ~sortByPop'
              /\ activeSortKey' = key]_vars

C24_Witness ==
    /\ mounted
    /\ ~bestValue /\ ~sortByPop
    /\ sortKey = "item_popularity" /\ sortDir = "asc"
    /\ activeSortKey = "item_popularity"

\* C25: the derived fields of an item's row (value, popRating,
\* analyticsPriority) are the same in every query, whatever the category or
\* tag, the search text, the sort key and the direction: each row returned
\* is the row built from its item with the threshold of the whole corpus,
\* which no event changes after the first render.
C25_DerivedFieldsSameInEveryQuery ==
    /\ [](mounted =>
            /\ VALUE_P85 = computeValueP85(GIFTS)
            /\ \A rs \in {rows} : \A i \in DOMAIN rs :
                  \A g \in {GIFTS[CorpusIndex(rs[i].id)]} :
                      /\ rs[i].value = rowValue(g)
                      /\ rs[i].popRating = calcPop(Some(g.item_popularity))
                      /\ rs[i].analyticsPriority =
                            analyticsStatus([score |-> g.score,
                                             item_popularity |-> g.item_popularity,
                                             price_min |-> g.price_min,
                                             value |-> rowValue(g)],
                                            computeValueP85(GIFTS)).priority)
    /\ [][mounted => VALUE_P85' = VALUE_P85]_vars

C25_Witness ==
    /\ mounted
    /\ effectiveCat # All /\ search # <<>>
    /\ Len(GIFTS) = 2
    /\ \E rs \in {rows} :
          /\ Len(rs) = 1
          /\ rs[1].analyticsPriority < 4
          /\ RatLess(RatInt(0), rs[1].value)
          /\ RatLess(rs[1].value, VALUE_P85)


\* The dependencies of the rows memo.
RowsInputs ==
    <<GIFTS, effectiveCat, search, activeSortKey, activeSortDir, VALUE_P85>>

\* C26: in every state the stored sort specification equals the active one
\* (activeSortKey = sortKey and activeSortDir = sortDir), so bestValue implies
\* sortKey = "value" and sortDir = "desc", sortByPop implies
\* sortKey = "item_popularity" and sortDir = "desc"; and a handleBestValue or
\* handleSortByPop event that switches its toggle off leaves every input of
\* the rows memo (corpus, effective category, search, active sort key and
\* direction, threshold) unchanged, so the displayed ordering stays.
C26_StoredSortIsActiveSort ==
    /\ [](/\ activeSortKey = sortKey
          /\ activeSortDir = sortDir
          /\ bestValue => sortKey = "value" /\ sortDir = "desc"
          /\ sortByPop => sortKey = "item_popularity" /\ sortDir = "desc")
    /\ [][/\ bestValue /\ handleBestValue => RowsInputs' = RowsInputs
          /\ sortByPop /\ handleSortByPop => RowsInputs' = RowsInputs]_vars

C26_Witness ==
    /\ mounted
    /\ sortByPop
    /\ activeSortKey = "item_popularity" /\ sortKey = "item_popularity"
    /\ activeSortDir = "desc" /\ sortDir = "desc"
    /\ Len(rows) = 2


\* C27: a handleColSort(key) event on the column that is the stored sort key
\* keeps the key and flips the direction (so two in a row restore it); on
\* another column it stores the key with the column's default direction,
\* "asc" for title and category and "desc" for the numeric columns.  The
\* GiftTable's handleSort does the same with default direction "asc".
C27_SameColumnFlipsOtherColumnResets ==
    [][/\ \A key \in SortKeys :
             handleColSort(key) =>
                 IF sortKey = key
                 THEN /\ sortKey' = sortKey
                      /\ sortDir' = OtherDir(sortDir)
                      /\ OtherDir(sortDir') = sortDir
                 ELSE /\ sortKey' = key
                      /\ sortDir' = IF key \in {"title", "category"}
                                    THEN "asc" ELSE "desc"
       /\ \A key \in GiftSortKeys :
             handleSort(key) =>
                 IF args.query.sortKey = key
                 THEN /\ args'.query.sortKey = key
                      /\ args'.query.sortDir = OtherDir(args.query.sortDir)
                 ELSE /\ args'.query.sortKey = key
                      /\ args'.query.sortDir = "asc"]_vars

C27_Witness ==
    /\ mounted
    /\ ~bestValue /\ ~sortByPop
    /\ sortKey = "title" /\ sortDir = "asc"
    /\ Len(rows) = 2


\* C28: evaluateGift(item).value equals
\* calculateValue(calculateGiftScore(item).score, item.price) for every input,
\* so for an item with price <= 0 the returned value is 0, and effectivePrice
\* is always >= 1.
C28_ValueIsCalculateValueOfPrice ==
    Returned("evaluateGift") =>
        /\ ret.value = calculateValue(calculateGiftScore(args).score, args.price)
        /\ JsLeq(args.price, Fin(0)) => ret.value = Fin(0)
        /\ JsLeq(Fin(1000), ret.effectivePrice)


\* C29: for every corpus, effective category ('All', a plain category,
\* 'tag:<id>' or the degenerate 'tag:') and search text, the number of rows
\* shown is at most the displayed total, rows.length <= totalForCat, and
\* equal to it when the search text is empty.
C29_RowCountWithinTotal ==
    Returned("buildRows") =>
        /\ Len(ret[1]) <= totalForCat(GIFTS, args.cat)
        /\ args.search = <<>> => Len(ret[1]) = totalForCat(GIFTS, args.cat)


\* C30: for any input sequence, the output of cleanData contains at most 5
\* items (plus the first) sharing one URL, and no two output items share the
\* same (lower-cased title, price digits) key.
C30_UrlCapAndNoDuplicateKeys ==
    Returned("cleanData") =>
        \A out \in {ret[1]} :
            /\ \A i \in DOMAIN out :
                  Cardinality({j \in DOMAIN out :
                      toLowerCase(out[j].url) = toLowerCase(out[i].url)}) <= 6
            /\ \A i, j \in DOMAIN out :
                  i # j => duplicateKey(out[i]) # duplicateKey(out[j])

====
